---- MODULE Spec2Model ----
(***************************************************************************)
(* State-machine model of firevue-reactive: the Reactive Document Handle   *)
(* (ReactiveDocument.ts), the Reactive Query Handle (ReactiveQuery.ts),    *)
(* the Sub-Document Manager (SubDocumentManager.ts) and the Reference      *)
(* Walker (utils.ts).                                                      *)
(*                                                                         *)
(* One top-level handle (id 0) is created in Init, as a document or a      *)
(* query handle, in one-shot or subscribe mode.  Nested handles are the    *)
(* document handles the hidden `target` accessor of a reference object     *)
(* builds; a nested handle carries the id of its reference object.         *)
(* The database client is the environment: it answers get()/onSnapshot()   *)
(* calls (reqs) with snapshots and errors.  The reactivity system is the   *)
(* synchronous effect of spec section 6: an effect re-runs when a cell it  *)
(* read in its last run is written from outside the effect.                *)
(***************************************************************************)
EXTENDS Integers, Sequences, FiniteSets, TLC

\* Bounds of the model.
MaxRefs == 2      \* reference objects the client creates in payloads
MaxReqs == 3      \* get() / onSnapshot() calls issued to the client
WalkDepth == 2    \* nesting depth of the values given to the walker alone

VARIABLES
    handles,   \* handle id -> handle state (0 = the top-level handle)
    refobjs,   \* sequence of reference objects found in delivered payloads
    reqs,      \* sequence of get()/onSnapshot() calls made on the client
    obs,       \* some cell write of the last step left error and data/items both set
    thrown,    \* the last step let an exception escape to its caller
    early,     \* some cell write of the last step showed new data, items or an error
               \* while a nested handle of a superseded payload was still connected
    walked     \* the walker called on its own: [input, visits], visits empty before

vars == <<handles, refobjs, reqs, obs, thrown, early, walked>>

(***************************************************************************)
(* Values                                                                  *)
(***************************************************************************)
Undefined == <<>>
Some(v) == <<v>>

NoRef == "none"                 \* the supplier resolved to no reference
TopRefs == {"A", "B"}           \* references the top-level supplier may yield
NestedDoc == "C"                \* the document an embedded reference points to

\* What a call of the supplier may do: return undefined, null, a value that is no
\* reference (and has no onSnapshot), throw, or return a reference.
Unusable == {"undefined", "null", "other", "throws"}
SupplierOutcomes == TopRefs \cup Unusable

\* docRefTrigger: the supplier's value if it is a DocumentReference, else null;
\* an exception of the supplier is caught.
docRefTrigger(outcome) ==
    IF outcome = "throws" THEN NoRef
    ELSE IF outcome \in TopRefs THEN outcome
    ELSE NoRef

\* queryRefTrigger: isQueryLike(queryRef) reads queryRef['onSnapshot'], which throws
\* for undefined and null; every exception is caught.
queryRefTrigger(outcome) ==
    IF outcome \in {"throws", "undefined", "null"} THEN NoRef
    ELSE IF outcome \in TopRefs THEN outcome
    ELSE NoRef

Trigger(kind, outcome) ==
    IF kind = "doc" THEN docRefTrigger(outcome) ELSE queryRefTrigger(outcome)

\* Payload values: a scalar, a document reference object, an array, a keyed object.
Val == [t |-> "val", doc |-> "", obj |-> 0, kids |-> <<>>]
Ref(d, o) == [t |-> "ref", doc |-> d, obj |-> o, kids |-> <<>>]
Kid(n, v) == [name |-> n, v |-> v, own |-> TRUE]
\* An enumerable key the object inherits from its prototype.
Inherited(n, v) == [name |-> n, v |-> v, own |-> FALSE]
Arr(vs) == [t |-> "arr", doc |-> "", obj |-> 0, kids |-> [i \in 1..Len(vs) |-> Kid("", vs[i])]]
Obj(ks) == [t |-> "obj", doc |-> "", obj |-> 0, kids |-> ks]
\* null, a callable value with properties, a reference object with properties.
Null == [t |-> "null", doc |-> "", obj |-> 0, kids |-> <<>>]
Fn(ks) == [t |-> "fn", doc |-> "", obj |-> 0, kids |-> ks]
RefWith(d, o, ks) == [t |-> "ref", doc |-> d, obj |-> o, kids |-> ks]

\* Payloads the client delivers; obj numbers the reference objects of one payload.
PlainPayload == Obj(<<Kid("name", Val)>>)
OneRefPayload == Obj(<<Kid("ref", Ref(NestedDoc, 1))>>)
TwoRefPayload == Obj(<<Kid("a", Ref(NestedDoc, 1)), Kid("list", Arr(<<Val, Ref(NestedDoc, 2)>>))>>)

\* A payload whose two locations hold the identical reference object.
SharedRefPayload == Obj(<<Kid("a", Ref(NestedDoc, 1)), Kid("b", Ref(NestedDoc, 1))>>)

\* snapshot.data() of a document snapshot: undefined when the document does not exist.
DocResults == {Undefined, Some(PlainPayload), Some(OneRefPayload), Some(TwoRefPayload)}
\* snapshot.docs of a query snapshot.
QueryResults == {<<>>, <<PlainPayload>>, <<OneRefPayload, PlainPayload>>, <<OneRefPayload, OneRefPayload>>}

IndexSegment == <<"[0]", "[1]", "[2]", "[3]">>

(***************************************************************************)
(* utils.ts: walkDocumentReferences.  The visits, in order, as             *)
(* [obj |-> reference object, path |-> path].                              *)
(***************************************************************************)
RECURSIVE walkDocumentReferences(_, _)
RECURSIVE WalkKids(_, _, _, _)

\* The loops of the walker without the hasOwnProperty test.
RECURSIVE WalkKids_inherited(_, _, _, _)
WalkKids_inherited(t, kids, i, path) ==
    IF i > Len(kids) THEN <<>>
    ELSE LET seg == IF t = "arr" THEN IndexSegment[i] ELSE kids[i].name
         IN walkDocumentReferences(kids[i].v, Append(path, seg))
            \o WalkKids_inherited(t, kids, i + 1, path)

\* for (i = 0; i < obj.length; ++i) ... / for (const name in obj) { if (!own) continue; ... }
WalkKids(t, kids, i, path) ==
    IF i > Len(kids) THEN <<>>
    ELSE IF t # "arr" /\ ~kids[i].own THEN WalkKids(t, kids, i + 1, path)
    ELSE LET seg == IF t = "arr" THEN IndexSegment[i] ELSE kids[i].name
         IN walkDocumentReferences(kids[i].v, Append(path, seg))
            \o WalkKids(t, kids, i + 1, path)

\* instanceof DocumentReference: visit; Array.isArray: elements; typeof 'object'
\* (which null is, and a function is not): own enumerable keys.
walkDocumentReferences(node, path) ==
    IF node.t = "ref" THEN <<[obj |-> node.obj, doc |-> node.doc, path |-> path]>>
    ELSE IF node.t = "arr" THEN WalkKids("arr", node.kids, 1, path)
    ELSE IF node.t \in {"obj", "null"} THEN WalkKids("obj", node.kids, 1, path)
    ELSE <<>>

RootPath == <<"$">>

\* snapshot.data(): builds the payload with fresh reference objects base+1, base+2, ...
RECURSIVE MakeData(_, _)
RECURSIVE MakeKids(_, _, _)

MakeKids(kids, i, base) ==
    IF i > Len(kids) THEN <<>>
    ELSE <<[kids[i] EXCEPT !.v = MakeData(kids[i].v, base)]>> \o MakeKids(kids, i + 1, base)

MakeData(node, base) ==
    IF node.t = "ref" THEN Ref(node.doc, base + node.obj)
    ELSE [node EXCEPT !.kids = MakeKids(node.kids, 1, base)]

\* The reference objects a payload holds.
ObjectsOf(node) == {v.obj : v \in {walkDocumentReferences(node, RootPath)[i] :
                                   i \in 1..Len(walkDocumentReferences(node, RootPath))}}

(***************************************************************************)
(* State records                                                           *)
(***************************************************************************)
\* A reference object as snapshot.data() builds it: no `target` accessor yet.
NewObject(d, h) ==
    [doc |-> d,              \* the document it points to
     owner |-> h,            \* the handle whose payload holds it
     accessor |-> FALSE,     \* add() has defined the hidden accessor
     subscribe |-> FALSE,    \* the subscribe flag add()'s closure captured
     subDoc |-> FALSE,       \* the closure's subDoc is set (to handle `obj id`)
     constructed |-> 0,      \* reactiveDocument() calls made by the closure
     readBy |-> {},          \* who has read the accessor: "consumer", "purge"
     madeBy |-> "none"]      \* whose read made the closure build the handle

\* The state of a handle right after its cells and locals are declared.
NewHandle(k, ref, sub) ==
    [kind |-> k, subscribe |-> sub,
     ref |-> ref,            \* what the reference trigger resolved to when last read
     disconnected |-> FALSE,
     stopCalls |-> 0,        \* calls of stopHandle(): the effect is stopped when > 0
     loading |-> FALSE, snapshot |-> Undefined, data |-> Undefined, error |-> Undefined,
     items |-> <<>>,         \* query handle: the Query Items
     unsubscribe |-> 0,      \* 0 = null, else the onSnapshot() call whose unsubscribe it holds
     records |-> <<>>]       \* document handle: records of its SubDocumentManager

\* A Sub-Document Manager: of document handle h (item = 0) or of Query Item `item` of h.
Mgr(h, k) == [h |-> h, item |-> k]

Records(S, m) ==
    IF m.item = 0 THEN S.H[m.h].records ELSE S.H[m.h].items[m.item].records

SetRecords(S, m, recs) ==
    IF m.item = 0 THEN [S EXCEPT !.H[m.h].records = recs]
    ELSE [S EXCEPT !.H[m.h].items[m.item].records = recs]

Populated(hd) == IF hd.kind = "doc" THEN hd.data # Undefined ELSE hd.items # <<>>

\* F applied to the value of v: v is evaluated once, however often F uses it.
Let(v, F(_)) == CHOOSE y \in {F(x) : x \in {v}} : TRUE

\* The onSnapshot() calls of handle h whose unsubscribe function was never invoked.
LiveSubs(Q, h) ==
    {i \in 1..Len(Q) : Q[i].h = h /\ Q[i].mode = "sub" /\ Q[i].unsubs = 0}

\* In state T the nested handle of reference object r, if built, is disconnected
\* and holds no live subscription.
TornDown(T, r) ==
    T.R[r].subDoc => T.H[r].disconnected /\ LiveSubs(T.Q, r) = {}

\* The reference objects of the payload a written value carries.
Carried(f, v) ==
    IF f = "data" /\ v # Undefined THEN ObjectsOf(v[1])
    ELSE IF f = "items" THEN UNION {ObjectsOf(v[k].data) : k \in 1..Len(v)}
    ELSE {}

\* Handle h shows new data, items or an error in cell f while a nested handle of a
\* payload of h other than the one written is still connected.
ShownEarly(S, h, f, v) ==
    /\ f \in {"data", "items", "error"}
    /\ v # <<>>
    /\ \E r \in 1..Len(S.R) :
           S.R[r].owner = h /\ r \notin Carried(f, v) /\ ~TornDown(S, r)

\* One write of a reactive cell; a synchronous dependent sees the handle as it is now.
WriteCell(S0, h, f, v) ==
    Let([S0 EXCEPT !.H[h][f] = v], LAMBDA S :
        [S EXCEPT !.obs = @ \/ (S.H[h].error # Undefined /\ Populated(S.H[h])),
                  !.early = @ \/ ShownEarly(S, h, f, v)])

\* docRef.onSnapshot(onSnapshot, onError) / docRef.get().then(onSnapshot).catch(onError)
IssueRequest(S0, h) ==
    Let(S0, LAMBDA S :
        LET hd == S.H[h]
            call == [h |-> h, ref |-> hd.ref,
                     mode |-> IF hd.subscribe THEN "sub" ELSE "get",
                     delivered |-> FALSE,   \* a snapshot or error has been delivered
                     unsubs |-> 0]          \* calls of the returned unsubscribe function
        IN IF hd.subscribe
           THEN [S EXCEPT !.Q = Append(@, call), !.H[h].unsubscribe = Len(S.Q) + 1]
           ELSE [S EXCEPT !.Q = Append(@, call)])

(***************************************************************************)
(* ReactiveDocument.ts and SubDocumentManager.ts                           *)
(***************************************************************************)
RECURSIVE removeAndDisconnectAll(_, _)
RECURSIVE DocDisconnect(_, _)
RECURSIVE lazySubDoc(_, _, _)
RECURSIVE reactiveDocument(_, _, _, _)
RECURSIVE DocEffect(_, _)

DocResetFields(S0, h, error, data, snapshot, loading) ==
    WriteCell(WriteCell(WriteCell(WriteCell(S0,
        h, "error", error),
        h, "data", data),
        h, "snapshot", snapshot),
        h, "loading", loading)

\* lazySubDoc without `if (!subDoc)`: every read of the accessor builds a handle.
lazySubDoc_nocache(S0, r, who) ==
    Let(S0, LAMBDA S :
        Let(reactiveDocument(S, r, S.R[r].doc, S.R[r].subscribe), LAMBDA S1 :
            [S1 EXCEPT !.R[r].subDoc = TRUE, !.R[r].constructed = @ + 1,
                       !.R[r].madeBy = who]))

\* lazySubDoc building a watching handle whatever the owner's mode.
lazySubDoc_watch(S0, r, who) ==
    Let(S0, LAMBDA S :
        IF ~S.R[r].subDoc
        THEN Let(reactiveDocument(S, r, S.R[r].doc, TRUE), LAMBDA S1 :
                 [S1 EXCEPT !.R[r].subDoc = TRUE, !.R[r].constructed = @ + 1,
                            !.R[r].madeBy = who])
        ELSE S)

\* The closure of add(): builds the nested handle on the first call only.
lazySubDoc(S0, r, who) ==
    Let(S0, LAMBDA S :
        IF ~S.R[r].subDoc
        THEN Let(reactiveDocument(S, r, S.R[r].doc, S.R[r].subscribe), LAMBDA S1 :
                 [S1 EXCEPT !.R[r].subDoc = TRUE, !.R[r].constructed = @ + 1,
                            !.R[r].madeBy = who])
        ELSE S)

\* The getter add() defines: get: function () { return lazySubDoc(); }
TargetGetter(S0, r, who) ==
    Let(S0, LAMBDA S : lazySubDoc([S EXCEPT !.R[r].readBy = @ \cup {who}], r, who))

\* rd?.disconnect(), rd being what the getter returned
DisconnectTarget(S0, r) ==
    Let(S0, LAMBDA S : IF S.R[r].subDoc THEN DocDisconnect(S, r) ELSE S)

\* removeAndDisconnectAll that only forgets the records (this.records = []).
removeAndDisconnectAll_forget(S0, m) == SetRecords(S0, m, <<>>)

removeAndDisconnectAll(S0, m) ==
    Let(S0, LAMBDA S :
        LET recs == Records(S, m)
        IN IF Len(recs) > 0
           THEN LET r == recs[Len(recs)].documentReference
                    popped == SetRecords(S, m, SubSeq(recs, 1, Len(recs) - 1))
                IN removeAndDisconnectAll(
                       DisconnectTarget(TargetGetter(popped, r, "purge"), r), m)
           ELSE S)

\* if (!docRef) return; loadingRef.value = true; onSnapshot() or get()
StartLoading(S0, h) ==
    Let(S0, LAMBDA S :
        IF S.H[h].ref = NoRef THEN S
        ELSE IssueRequest(WriteCell(S, h, "loading", TRUE), h))

\* The watchEffect callback of reactiveDocument.
DocEffect(S0, h) ==
    Let(S0, LAMBDA S :
        IF S.H[h].disconnected THEN S
        ELSE StartLoading(
                 DocResetFields(removeAndDisconnectAll(S, Mgr(h, 0)),
                                h, Undefined, Undefined, Undefined, FALSE),
                 h))

\* reactiveDocument(): declares the state and runs the effect once (flush: 'sync').
reactiveDocument(S0, h, ref, sub) ==
    DocEffect([S0 EXCEPT !.H = (h :> NewHandle("doc", ref, sub)) @@ @], h)

\* if (stopHandle) stopHandle(); if (unsubscribe) { unsubscribe(); unsubscribe = null; }
StopAndUnsubscribe(S0, h) ==
    Let(S0, LAMBDA S :
        IF S.H[h].unsubscribe # 0
        THEN [S EXCEPT !.H[h].stopCalls = @ + 1,
                       !.Q[S.H[h].unsubscribe].unsubs = @ + 1,
                       !.H[h].unsubscribe = 0]
        ELSE [S EXCEPT !.H[h].stopCalls = @ + 1])

SetDisconnected(S0, h) == [S0 EXCEPT !.H[h].disconnected = TRUE]

\* disconnect without `if (disconnected) return`.
DocDisconnect_noguard(S0, h) ==
    DocResetFields(
        SetDisconnected(
            removeAndDisconnectAll(StopAndUnsubscribe(S0, h), Mgr(h, 0)), h),
        h, Undefined, Undefined, Undefined, FALSE)

DocDisconnect(S0, h) ==
    Let(S0, LAMBDA S :
        IF S.H[h].disconnected THEN S
        ELSE DocResetFields(
                 SetDisconnected(
                     removeAndDisconnectAll(StopAndUnsubscribe(S, h), Mgr(h, 0)), h),
                 h, Undefined, Undefined, Undefined, FALSE))

\* The error Object.defineProperty raises.
TypeError == "TypeError"

\* SubDocumentManager.add on M = [R |-> reference objects, records |-> this.records,
\* threw |-> an exception was raised]: defines the accessor on the reference object
\* and records the reference.  Object.defineProperty defines `target` with
\* configurable left false, so defining it again, with the getter of another
\* closure, raises a TypeError before the record is pushed.
add(M, propertyPath, r, sub) ==
    IF M.R[r].accessor
    THEN [M EXCEPT !.threw = TRUE]
    ELSE [R |-> [M.R EXCEPT ![r].accessor = TRUE, ![r].subscribe = sub],
          records |-> Append(M.records,
                             [propertyPath |-> propertyPath, documentReference |-> r]),
          threw |-> FALSE]

\* The walk calling the visitor; an exception of the visitor ends the walk.
RECURSIVE AddVisits(_, _, _, _)
AddVisits(M, visits, i, sub) ==
    IF i > Len(visits) \/ M.threw THEN M
    ELSE AddVisits(add(M, visits[i].path, visits[i].obj, sub), visits, i + 1, sub)

\* SubDocumentManager.enhanceSubDocuments
enhanceSubDocuments(M, data, sub) ==
    AddVisits(M, walkDocumentReferences(data, RootPath), 1, sub)

\* The reference objects snapshot.data() creates for payload `tmpl`, owned by h.
CreateObjects(R, tmpl, h) ==
    LET visits == walkDocumentReferences(tmpl, RootPath)
        n == Cardinality(ObjectsOf(tmpl))
        first(k) == CHOOSE i \in 1..Len(visits) : visits[i].obj = k
    IN R \o [k \in 1..n |-> NewObject(visits[first(k)].doc, h)]

\* const data = snapshot.data(); if (data) enhanceSubDocuments(data, subscribe);
\* resetFields({snapshot, data})
SetData(S0, h, snapshot, result) ==
    Let(S0, LAMBDA S :
        IF result = Undefined
        THEN DocResetFields(S, h, Undefined, Undefined, Some(snapshot), FALSE)
        ELSE LET data == MakeData(result[1], Len(S.R))
                 M == enhanceSubDocuments(
                          [R |-> CreateObjects(S.R, result[1], h),
                           records |-> S.H[h].records, threw |-> FALSE],
                          data, S.H[h].subscribe)
             IN IF M.threw
                THEN [S EXCEPT !.R = M.R, !.H[h].records = M.records, !.thrown = TRUE]
                ELSE DocResetFields([S EXCEPT !.R = M.R, !.H[h].records = M.records],
                                    h, Undefined, Some(data), Some(snapshot), FALSE))

\* onSnapshot without the purge of the previous payload's nested handles.
DocOnSnapshot_nopurge(S0, h, snapshot, result) == SetData(S0, h, snapshot, result)

DocOnSnapshot(S0, h, snapshot, result) ==
    SetData(removeAndDisconnectAll(S0, Mgr(h, 0)), h, snapshot, result)

\* onError that asks again for the reference after recording the error.
DocOnError_retry(S0, h, err) ==
    IssueRequest(
        DocResetFields(removeAndDisconnectAll(S0, Mgr(h, 0)),
                       h, Some(err), Undefined, Undefined, FALSE),
        h)

DocOnError(S0, h, err) ==
    DocResetFields(removeAndDisconnectAll(S0, Mgr(h, 0)),
                   h, Some(err), Undefined, Undefined, FALSE)

(***************************************************************************)
(* ReactiveQuery.ts                                                        *)
(***************************************************************************)
RECURSIVE PurgeFrom(_, _, _)
PurgeFrom(S0, h, k) ==
    Let(S0, LAMBDA S :
        IF k > Len(S.H[h].items) THEN S
        ELSE PurgeFrom(removeAndDisconnectAll(S, Mgr(h, k)), h, k + 1))

\* itemsRef.value.forEach(i => i.disconnect()), QueryItem.disconnect being
\* removeAndDisconnectAll() of the item's own manager.
purgeExistingItems(S0, h) == PurgeFrom(S0, h, 1)

\* new QueryItem(qds, subscribe): [R |-> reference objects, item |-> the item,
\* threw |-> the constructor raised].
QueryItem(R, h, qds, sub) ==
    LET data == MakeData(qds, Len(R))
        M == enhanceSubDocuments([R |-> CreateObjects(R, qds, h), records |-> <<>>,
                                  threw |-> FALSE],
                                 data, sub)
    IN [R |-> M.R, item |-> [data |-> data, records |-> M.records], threw |-> M.threw]

\* snapshot.docs.map(qds => new QueryItem(qds, subscribe))
RECURSIVE MapItems(_, _, _, _, _)
MapItems(R, h, docs, sub, items) ==
    IF Len(items) = Len(docs) THEN [R |-> R, items |-> items, threw |-> FALSE]
    ELSE Let(QueryItem(R, h, docs[Len(items) + 1], sub), LAMBDA qi :
             IF qi.threw THEN [R |-> qi.R, items |-> items, threw |-> TRUE]
             ELSE MapItems(qi.R, h, docs, sub, Append(items, qi.item)))

RECURSIVE QueryEffect(_, _)
RECURSIVE QueryResetFields(_, _, _, _, _, _, _)

\* itemsRef.value = items.  The effect read itemsRef (purgeExistingItems) in its last
\* run, so the write re-runs it at once unless the write is the effect's own
\* (inEffect) or the effect has been stopped.
WriteItems(S0, h, items, inEffect) ==
    Let(WriteCell(S0, h, "items", items), LAMBDA S :
        IF ~inEffect /\ S.H[h].stopCalls = 0 THEN QueryEffect(S, h) ELSE S)

\* resetFields of reactiveQuery.
QueryResetFields(S0, h, error, items, snapshot, loading, inEffect) ==
    WriteCell(WriteCell(WriteItems(WriteCell(S0,
        h, "error", error),
        h, items, inEffect),
        h, "snapshot", snapshot),
        h, "loading", loading)

\* The watchEffect callback of reactiveQuery.
QueryEffect(S0, h) ==
    Let(S0, LAMBDA S :
        IF S.H[h].disconnected THEN S
        ELSE StartLoading(
                 QueryResetFields(purgeExistingItems(S, h),
                                  h, Undefined, <<>>, Undefined, FALSE, TRUE),
                 h))

reactiveQuery(S0, h, ref, sub) ==
    QueryEffect([S0 EXCEPT !.H = (h :> NewHandle("query", ref, sub)) @@ @], h)

\* const items = snapshot.docs.map(...); resetFields({snapshot, items})
SetItems(S0, h, snapshot, docs) ==
    Let(S0, LAMBDA S :
        Let(MapItems(S.R, h, docs, S.H[h].subscribe, <<>>), LAMBDA M :
            IF M.threw
            THEN [S EXCEPT !.R = M.R, !.thrown = TRUE]
            ELSE QueryResetFields([S EXCEPT !.R = M.R],
                                  h, Undefined, M.items, Some(snapshot), FALSE, FALSE)))

QueryOnSnapshot(S0, h, snapshot, docs) ==
    SetItems(purgeExistingItems(S0, h), h, snapshot, docs)

QueryOnError(S0, h, err) ==
    QueryResetFields(purgeExistingItems(S0, h),
                     h, Some(err), <<>>, Undefined, FALSE, FALSE)

QueryDisconnect(S0, h) ==
    Let(S0, LAMBDA S :
        IF S.H[h].disconnected THEN S
        ELSE QueryResetFields(
                 purgeExistingItems(SetDisconnected(StopAndUnsubscribe(S, h), h), h),
                 h, Undefined, <<>>, Undefined, FALSE, FALSE))

(***************************************************************************)
(* The handle's operations, for either kind of handle                      *)
(***************************************************************************)
Effect(S0, h) ==
    Let(S0, LAMBDA S :
        IF S.H[h].kind = "doc" THEN DocEffect(S, h) ELSE QueryEffect(S, h))

disconnect(S0, h) ==
    Let(S0, LAMBDA S :
        IF S.H[h].kind = "doc" THEN DocDisconnect(S, h) ELSE QueryDisconnect(S, h))

onSnapshot(S0, h, snapshot, result) ==
    Let(S0, LAMBDA S :
        IF S.H[h].kind = "doc" THEN DocOnSnapshot(S, h, snapshot, result)
        ELSE QueryOnSnapshot(S, h, snapshot, result))

onError(S0, h, err) ==
    Let(S0, LAMBDA S :
        IF S.H[h].kind = "doc" THEN DocOnError(S, h, err) ELSE QueryOnError(S, h, err))

\* What the client may deliver for a call made by handle h.
ResultsFor(h) == IF handles[h].kind = "doc" THEN DocResults ELSE QueryResults

(***************************************************************************)
(* The state machine                                                       *)
(***************************************************************************)
\* The walker is not being called on its own.
NotWalking == [input |-> Val, visits |-> Undefined]

Empty == [H |-> <<>>, R |-> <<>>, Q |-> <<>>, obs |-> FALSE, thrown |-> FALSE,
          early |-> FALSE]
Start == [H |-> handles, R |-> refobjs, Q |-> reqs, obs |-> FALSE, thrown |-> FALSE,
          early |-> FALSE]

\* The step to state S, within the bounds of the model.
Commit(S0) ==
    \E S \in {S0} :
        /\ Len(S.R) <= MaxRefs
        /\ Len(S.Q) <= MaxReqs
        /\ handles' = S.H
        /\ refobjs' = S.R
        /\ reqs' = S.Q
        /\ obs' = S.obs
        /\ thrown' = S.thrown
        /\ early' = S.early
        /\ walked' = walked

\* getOnce / watchDocument / queryOnce / watchQuery with a supplier that returns
\* undefined, throws or returns reference A.
InitKind(kind) ==
    \E sub \in BOOLEAN, outcome \in {"undefined", "throws", "A"} :
        \E S \in {IF kind = "doc"
                   THEN reactiveDocument(Empty, 0, docRefTrigger(outcome), sub)
                   ELSE reactiveQuery(Empty, 0, queryRefTrigger(outcome), sub)} :
           /\ handles = S.H
           /\ refobjs = S.R
           /\ reqs = S.Q
           /\ obs = S.obs
           /\ thrown = S.thrown
           /\ early = S.early
           /\ walked = NotWalking

\* The supplier's reactive dependencies change: the effect, unless stopped, re-runs
\* synchronously and reads the trigger, which calls the supplier.  The trigger is a
\* lazy computed: with the effect stopped nothing reads it.
Resupplied(outcome) ==
    Effect([Start EXCEPT !.H[0].ref = Trigger(handles[0].kind, outcome)], 0)

SupplierChange(outcome) ==
    IF handles[0].stopCalls = 0
    THEN Commit(Resupplied(outcome))
    ELSE Commit(Start)

Deliverable(i) ==
    \/ reqs[i].mode = "get" /\ ~reqs[i].delivered
    \/ reqs[i].mode = "sub" /\ reqs[i].unsubs = 0

Stale(i) == reqs[i].mode = "sub" /\ reqs[i].unsubs > 0

\* A snapshot or an error is known by the reference whose call it answers.
Outcome(i) == reqs[i].ref

\* The client calls onSnapshot.  get().then(onSnapshot).catch(onError) hands an
\* exception of onSnapshot to onError; a subscription's callback lets it escape.
SnapshotCallback(i, result) ==
    Let(onSnapshot([Start EXCEPT !.Q[i].delivered = TRUE], reqs[i].h, Outcome(i), result),
        LAMBDA T :
            IF T.thrown /\ reqs[i].mode = "get"
            THEN onError([T EXCEPT !.thrown = FALSE], reqs[i].h, TypeError)
            ELSE T)

ErrorCallback(i) ==
    onError([Start EXCEPT !.Q[i].delivered = TRUE], reqs[i].h, Outcome(i))

\* The client resolves a get() or delivers a snapshot on a live subscription.
DeliverSnapshot(i, result) ==
    /\ Deliverable(i)
    /\ Commit(SnapshotCallback(i, result))

\* The client rejects a get() or calls the error callback of a live subscription.
DeliverError(i) ==
    /\ Deliverable(i)
    /\ Commit(ErrorCallback(i))

\* A client that calls a callback of a subscription already unsubscribed.
StaleSnapshot(i, result) ==
    /\ Stale(i)
    /\ Commit(SnapshotCallback(i, result))

StaleError(i) ==
    /\ Stale(i)
    /\ Commit(ErrorCallback(i))

\* The caller, or the owning component's teardown, calls disconnect() of a handle.
Disconnect(h) ==
    Commit(disconnect(Start, h))

\* A consumer reads reference.target.
ReadTarget(r) ==
    /\ refobjs[r].accessor
    /\ Commit(TargetGetter(Start, r, "consumer"))

Init == \E kind \in {"doc", "query"} : InitKind(kind)

Next ==
    \/ \E outcome \in SupplierOutcomes : SupplierChange(outcome)
    \/ \E i \in 1..Len(reqs) : \E result \in ResultsFor(reqs[i].h) : DeliverSnapshot(i, result)
    \/ \E i \in 1..Len(reqs) : DeliverError(i)
    \/ \E h \in DOMAIN handles : Disconnect(h)
    \/ \E r \in 1..Len(refobjs) : ReadTarget(r)

Spec == Init /\ [][Next]_vars

NextStale ==
    \/ Next
    \/ \E i \in 1..Len(reqs) : \E result \in ResultsFor(reqs[i].h) : StaleSnapshot(i, result)
    \/ \E i \in 1..Len(reqs) : StaleError(i)

SpecStale == Init /\ [][NextStale]_vars

\* A client whose document payloads may hold one reference object at two locations.
NextShared ==
    \/ Next
    \/ \E i \in 1..Len(reqs) : DeliverSnapshot(i, Some(SharedRefPayload))

\* The document handle alone as the top-level handle.
InitDoc == InitKind("doc")

SpecDoc == InitDoc /\ [][Next]_vars

SpecShared == InitDoc /\ [][NextShared]_vars

(***************************************************************************)
(* walkDocumentReferences called on its own, with a visitor that collects  *)
(* its arguments, on acyclic values of bounded depth.                      *)
(***************************************************************************)
WalkLeaves == {Val, Null, Ref(NestedDoc, 1)}

RECURSIVE WalkInputs(_)
WalkInputs(d) ==
    IF d = 0 THEN WalkLeaves
    ELSE LET T == WalkInputs(d - 1)
         IN T \cup {Arr(<<a, l>>) : a \in T, l \in WalkLeaves}
              \cup {Obj(<<Kid("k", l), Kid("m", a)>>) : a \in T, l \in WalkLeaves}
              \cup {Obj(<<Kid("k", a), Inherited("p", l)>>) : a \in T, l \in WalkLeaves}
              \cup {Fn(<<Kid("k", a)>>) : a \in T}
              \cup {RefWith(NestedDoc, 2, <<Kid("k", a)>>) : a \in T}

InitWalk ==
    /\ handles = <<>>
    /\ refobjs = <<>>
    /\ reqs = <<>>
    /\ obs = FALSE
    /\ thrown = FALSE
    /\ early = FALSE
    /\ \E input \in WalkInputs(WalkDepth) :
           walked = [input |-> input, visits |-> Undefined]

\* walkDocumentReferences(input, (ref, path) => visits.push({ref, path}))
Walk ==
    /\ walked.visits = Undefined
    /\ walked' = [walked EXCEPT
                     !.visits = Some(walkDocumentReferences(walked.input, RootPath))]
    /\ UNCHANGED <<handles, refobjs, reqs, obs, thrown, early>>

SpecWalk == InitWalk /\ [][Walk]_vars

(***************************************************************************)
(* Notions the properties use                                              *)
(***************************************************************************)
Seen(seq) == {seq[i] : i \in 1..Len(seq)}

\* The four fields a handle exposes (data for a document, items for a query).
Fields(hd) == <<hd.loading, hd.snapshot, hd.data, hd.items, hd.error>>

EmptyFields == <<FALSE, Undefined, Undefined, <<>>, Undefined>>

CallsOf(Q, h) == {i \in 1..Len(Q) : Q[i].h = h}

\* The reference objects recorded by the managers of handle hd: its own manager
\* and, for a query handle, the managers of its Query Items.
RecordedBy(hd) ==
    {rec.documentReference : rec \in Seen(hd.records)}
    \cup UNION {{rec.documentReference : rec \in Seen(hd.items[k].records)} :
                k \in 1..Len(hd.items)}

\* The reference objects of the sub-tree handle h owns in state [H, R, Q].
RECURSIVE SubTree(_, _)
SubTree(S, h) ==
    RecordedBy(S.H[h])
    \cup UNION {IF r \in DOMAIN S.H THEN SubTree(S, r) ELSE {} : r \in RecordedBy(S.H[h])}

(***************************************************************************)
(* C1.  In subscribe mode every unsubscribe function onSnapshot() returned *)
(* is invoked exactly once: a re-evaluation unsubscribes the previous      *)
(* subscription before it issues the next, so a handle has at most one     *)
(* live subscription, the one whose unsubscribe function it holds, and     *)
(* none after disconnect().                                                *)
(***************************************************************************)
C1_OneLiveSubscription ==
    \A h \in DOMAIN handles :
        /\ Cardinality(LiveSubs(reqs, h)) <= 1
        /\ LiveSubs(reqs, h) \subseteq {handles[h].unsubscribe}
        /\ handles[h].disconnected => LiveSubs(reqs, h) = {}
        /\ \A i \in CallsOf(reqs, h) : reqs[i].unsubs <= 1

(***************************************************************************)
(* C2.  Once disconnect() was called on a handle with a subscription       *)
(* outstanding, the unsubscribe function has been invoked exactly once and *)
(* loading, snapshot, data/items and error never change again, whatever    *)
(* callback the client invokes later.                                      *)
(***************************************************************************)
C2_FrozenAfterDisconnect ==
    [][\A h \in DOMAIN handles :
          handles[h].subscribe /\ handles[h].disconnected
          => /\ Fields(handles'[h]) = Fields(handles[h])
             /\ \A i \in CallsOf(reqs, h) : reqs'[i].unsubs = reqs[i].unsubs]_vars

(***************************************************************************)
(* C3.  Purge invariant.  In every reachable state in which the top-level  *)
(* handle's effect can still run, a re-evaluation to any reference v, or   *)
(* to no reference, leaves the managers of the handle empty (a query       *)
(* handle: no Query Item) and every nested handle that was attached from   *)
(* the previous payload disconnected and without a live subscription.      *)
(***************************************************************************)
Reevaluated(v) == Effect([Start EXCEPT !.H[0].ref = v], 0)

C3_PurgeOnReevaluation ==
    handles[0].stopCalls = 0 =>
        \A v \in TopRefs \cup {NoRef} :
            \A T \in {Reevaluated(v)} :
                /\ T.H[0].loading = (v # NoRef)
                /\ RecordedBy(T.H[0]) = {}
                /\ \A r \in RecordedBy(handles[0]) : TornDown(T, r)

\* A consumer built a nested handle of the current payload, it is connected and
\* subscribed, and the re-evaluation tears it down.
C3_Witness ==
    /\ handles[0].stopCalls = 0
    /\ \E r \in RecordedBy(handles[0]) :
           /\ refobjs[r].madeBy = "consumer"
           /\ ~handles[r].disconnected
           /\ LiveSubs(reqs, r) # {}
           /\ Reevaluated("B").H[r].disconnected
           /\ LiveSubs(Reevaluated("B").Q, r) = {}

(***************************************************************************)
(* C4.  Loading window.  loading is true exactly while the request of the  *)
(* current reference (the one the last re-evaluation issued) has had no    *)
(* snapshot or error delivered; a completion of an earlier, superseded     *)
(* request never turns it false.                                           *)
(***************************************************************************)
LatestCall(h) == CHOOSE i \in CallsOf(reqs, h) : \A j \in CallsOf(reqs, h) : j <= i

CurrentUnsettled(h) ==
    /\ ~handles[h].disconnected
    /\ handles[h].ref # NoRef
    /\ CallsOf(reqs, h) # {}
    /\ ~reqs[LatestCall(h)].delivered

C4_LoadingWindow ==
    \A h \in DOMAIN handles : handles[h].loading = CurrentUnsettled(h)

(***************************************************************************)
(* C5.  A completion of a superseded reference never decides the handle's  *)
(* state: once every request a connected one-shot handle issued has        *)
(* completed, in whatever order, the handle is settled on the result (the  *)
(* snapshot or the error) of its current reference.                        *)
(***************************************************************************)
C5_SettledOnCurrentReference ==
    \A h \in DOMAIN handles :
        /\ ~handles[h].subscribe
        /\ ~handles[h].disconnected
        /\ handles[h].ref # NoRef
        /\ \A i \in CallsOf(reqs, h) : reqs[i].delivered
        => /\ ~handles[h].loading
           /\ handles[h].snapshot # Undefined \/ handles[h].error # Undefined
           /\ handles[h].snapshot \in {Undefined, Some(handles[h].ref)}
           /\ handles[h].error \in {Undefined, Some(handles[h].ref)}

(***************************************************************************)
(* C6.  Idempotent disconnect.  The first disconnect() of a handle stops   *)
(* the effect once, leaves disconnected = true and the four fields empty   *)
(* with loading = false; a disconnect() of a handle already disconnected   *)
(* changes nothing at all (no unsubscribe, no stop, no nested disconnect), *)
(* so N calls leave the state one call leaves; and disconnected never      *)
(* returns to false.                                                       *)
(***************************************************************************)
DisconnectLeaves(h) ==
    \A T \in {disconnect(Start, h)} :
        /\ T.H[h].disconnected
        /\ handles[h].disconnected =>
               T.H = handles /\ T.R = refobjs /\ T.Q = reqs
        /\ ~handles[h].disconnected =>
               /\ Fields(T.H[h]) = EmptyFields
               /\ T.H[h].stopCalls = 1
               /\ T.H[h].unsubscribe = 0
               /\ handles[h].unsubscribe # 0 =>
                      T.Q[handles[h].unsubscribe].unsubs =
                          reqs[handles[h].unsubscribe].unsubs + 1
               /\ disconnect(T, h) = T

C6_IdempotentDisconnect ==
    /\ [](\A h \in DOMAIN handles : DisconnectLeaves(h))
    /\ [][\A h \in DOMAIN handles :
             handles[h].disconnected => handles'[h].disconnected]_vars

\* A handle was disconnected with a subscription outstanding, which was unsubscribed
\* once, and a further disconnect() leaves every call as it is.
C6_Witness ==
    \E h \in DOMAIN handles :
        /\ handles[h].disconnected
        /\ handles[h].stopCalls = 1
        /\ \E i \in CallsOf(reqs, h) : reqs[i].mode = "sub" /\ reqs[i].unsubs = 1
        /\ disconnect(Start, h).Q = reqs

(***************************************************************************)
(* C7.  Mutual exclusion of the result fields.  After no cell write of any *)
(* operation, and in no state between operations, are error and data       *)
(* (items, non-empty, for a query handle) set at the same time.            *)
(***************************************************************************)
C7_ErrorAndDataExclusive ==
    /\ ~obs
    /\ \A h \in DOMAIN handles :
           ~(handles[h].error # Undefined /\ Populated(handles[h]))

(***************************************************************************)
(* C8.  removeAndDisconnectAll() builds no nested handle and issues no     *)
(* get() or onSnapshot() call for a record whose accessor no consumer      *)
(* read: such a reference object never has a handle or a call of its own.  *)
(***************************************************************************)
C8_PurgeBuildsNoHandle ==
    \A r \in 1..Len(refobjs) :
        "consumer" \notin refobjs[r].readBy =>
            /\ refobjs[r].constructed = 0
            /\ r \notin DOMAIN handles
            /\ CallsOf(reqs, r) = {}

(***************************************************************************)
(* C9.  Lazy nested construction.  A reference object whose accessor was   *)
(* never read has no nested handle and no call of its own; once the        *)
(* accessor was read the closure has built exactly one document handle,    *)
(* for that reference and with the subscribe flag of the owning handle,    *)
(* however often the accessor is read.                                     *)
(***************************************************************************)
C9_LazyNestedHandle ==
    \A r \in 1..Len(refobjs) :
        /\ refobjs[r].accessor
        /\ refobjs[r].constructed <= 1
        /\ refobjs[r].readBy = {} =>
               /\ refobjs[r].constructed = 0
               /\ r \notin DOMAIN handles
               /\ CallsOf(reqs, r) = {}
        /\ refobjs[r].readBy # {} =>
               /\ refobjs[r].constructed = 1
               /\ r \in DOMAIN handles
               /\ handles[r].kind = "doc"
               /\ handles[r].subscribe = handles[refobjs[r].owner].subscribe
               /\ Cardinality(CallsOf(reqs, r)) = 1
               /\ \A i \in CallsOf(reqs, r) : reqs[i].ref = refobjs[r].doc

\* One reference object is recorded and not yet read; the accessor of another was
\* read by a consumer and again by a purge, and its closure built one handle.
C9_Witness ==
    /\ \E r \in 1..Len(refobjs) : refobjs[r].readBy = {}
    /\ \E r \in 1..Len(refobjs) :
           /\ refobjs[r].readBy = {"consumer", "purge"}
           /\ refobjs[r].madeBy = "consumer"
           /\ refobjs[r].constructed = 1

(***************************************************************************)
(* C10.  Cascade.  In every reachable state, disconnect() of a connected   *)
(* handle leaves every nested handle of the sub-tree the handle owns       *)
(* (the references its managers record, and recursively those the nested   *)
(* handles record) disconnected and without a live subscription.           *)
(***************************************************************************)
C10_DisconnectCascades ==
    \A h \in DOMAIN handles :
        ~handles[h].disconnected =>
            \A T \in {disconnect(Start, h)} :
                \A r \in SubTree(Start, h) : TornDown(T, r)

(***************************************************************************)
(* C11.  A query handle that receives, for its current reference, a        *)
(* snapshot with n result documents settles with exactly n Query Items in  *)
(* the client's order, item k wrapping result document k, snapshot set,    *)
(* error empty and loading = false.  (Every step of the model is a         *)
(* snapshot, an error, a reference change, a disconnect or a read of an    *)
(* accessor, so the settled state is the state the callback leaves.)       *)
(***************************************************************************)
ForCurrentReference(i) ==
    /\ Deliverable(i)
    /\ ~handles[reqs[i].h].disconnected
    /\ reqs[i].ref = handles[reqs[i].h].ref

Wraps(item, qds) == \E base \in 0..Len(refobjs) + 2 : item.data = MakeData(qds, base)

C11_QuerySettlesWithItems ==
    [][\A i \in 1..Len(reqs) : \A docs \in QueryResults :
          /\ handles[reqs[i].h].kind = "query"
          /\ ForCurrentReference(i)
          /\ DeliverSnapshot(i, docs)
          => \A hd \in {handles'[reqs[i].h]} :
                 /\ Len(hd.items) = Len(docs)
                 /\ \A k \in 1..Len(hd.items) : Wraps(hd.items[k], docs[k])
                 /\ hd.snapshot = Some(Outcome(i))
                 /\ hd.error = Undefined
                 /\ ~hd.loading]_vars

(***************************************************************************)
(* C12.  A payload that holds the identical reference object at two        *)
(* locations is enhanced without an exception: no operation lets an        *)
(* exception escape, no handle reports the TypeError of add() in its       *)
(* error field, and every reference object of a payload a handle exposes   *)
(* is recorded by the handle's manager.                                    *)
(***************************************************************************)
C12_SharedReferenceAccepted ==
    /\ ~thrown
    /\ \A h \in DOMAIN handles :
           /\ handles[h].error # Some(TypeError)
           /\ handles[h].kind = "doc" /\ handles[h].data # Undefined =>
                  ObjectsOf(handles[h].data[1]) \subseteq RecordedBy(handles[h])

(***************************************************************************)
(* C13.  A re-evaluation in which the supplier returns undefined, null or  *)
(* a value that is no reference, or throws, leaves the handle Idle         *)
(* (loading = false; snapshot, data/items and error empty), issues no      *)
(* get() or onSnapshot() call and lets no exception escape.                *)
(***************************************************************************)
C13_UnusableSupplierIsIdle ==
    [][\A outcome \in Unusable :
          handles[0].stopCalls = 0 /\ SupplierChange(outcome)
          => /\ Fields(handles'[0]) = EmptyFields
             /\ Len(reqs') = Len(reqs)
             /\ ~thrown']_vars

(***************************************************************************)
(* C14.  When the request for the handle's current reference fails (the    *)
(* get() rejects or the subscription's error callback fires), the handle   *)
(* settles with error set to that error, snapshot and data (items) empty   *)
(* and loading = false, every nested handle of the previous payload is     *)
(* disconnected without a live subscription, and the handle issues no new  *)
(* get() or onSnapshot() call.                                             *)
(***************************************************************************)
Now == [H |-> handles', R |-> refobjs', Q |-> reqs', obs |-> obs', thrown |-> thrown',
        early |-> early']

C14_ErrorSettles ==
    [][\A i \in 1..Len(reqs) :
          ForCurrentReference(i) /\ DeliverError(i)
          => /\ handles'[reqs[i].h].error = Some(Outcome(i))
             /\ handles'[reqs[i].h].snapshot = Undefined
             /\ ~Populated(handles'[reqs[i].h])
             /\ ~handles'[reqs[i].h].loading
             /\ \A r \in RecordedBy(handles[reqs[i].h]) : TornDown(Now, r)
             /\ CallsOf(reqs', reqs[i].h) = CallsOf(reqs, reqs[i].h)]_vars

(***************************************************************************)
(* C15.  The mode of a handle is fixed at creation and inherited: every    *)
(* call a one-shot handle or a nested handle under it ever made is a       *)
(* get(), every call a watching handle or a nested handle under it ever    *)
(* made is an onSnapshot(), and only a watching handle holds an            *)
(* unsubscribe function.                                                   *)
(***************************************************************************)
ModeOf(sub) == IF sub THEN "sub" ELSE "get"

C15_ModeIsFixed ==
    /\ \A h \in DOMAIN handles :
           /\ handles[h].subscribe = handles[0].subscribe
           /\ handles[h].unsubscribe # 0 => handles[0].subscribe
    /\ \A i \in 1..Len(reqs) : reqs[i].mode = ModeOf(handles[0].subscribe)

\* A one-shot handle whose reference changed and whose purge built a nested handle,
\* which made a get() call and was disconnected.
C15_Witness ==
    /\ ~handles[0].subscribe
    /\ Cardinality(CallsOf(reqs, 0)) >= 2
    /\ \E r \in 1..Len(refobjs) :
           /\ refobjs[r].madeBy = "purge"
           /\ handles[r].disconnected
           /\ \E i \in CallsOf(reqs, r) : reqs[i].mode = "get"

(***************************************************************************)
(* C16.  The disconnected flag is monotone and ends re-evaluation: on      *)
(* every step a disconnected handle stays disconnected and makes no new    *)
(* get() or onSnapshot() call, and a change of the supplier's dependencies *)
(* after disconnect() of the handle changes no handle, no reference        *)
(* object and no call (no purge, no reset, no request).                    *)
(***************************************************************************)
C16_DisconnectedEndsReevaluation ==
    /\ [][\A h \in DOMAIN handles :
             handles[h].disconnected =>
                 /\ handles'[h].disconnected
                 /\ CallsOf(reqs', h) = CallsOf(reqs, h)]_vars
    /\ [][\A outcome \in SupplierOutcomes :
             handles[0].disconnected /\ SupplierChange(outcome) =>
                 UNCHANGED <<handles, refobjs, reqs>>]_vars

\* A handle was disconnected with a request in flight, the request has completed
\* since, and a re-evaluation for another reference is ignored.
C16_Witness ==
    /\ handles[0].disconnected
    /\ handles[0].ref = "A"
    /\ \E i \in CallsOf(reqs, 0) : reqs[i].delivered
    /\ handles[0].snapshot # Undefined \/ handles[0].error # Undefined
    /\ CallsOf(reqs, 0) = {1}

(***************************************************************************)
(* C17.  Nested handles die with their payload.  No cell write shows new   *)
(* data, items or an error of a handle while a nested handle built from    *)
(* another (superseded) payload of that handle is connected or holds a     *)
(* live subscription; and between operations every reference object of a   *)
(* handle that its managers no longer record is torn down.                 *)
(***************************************************************************)
C17_NestedDieBeforeNewData ==
    /\ ~early
    /\ \A r \in 1..Len(refobjs) :
           r \notin RecordedBy(handles[refobjs[r].owner]) => TornDown(Start, r)

\* A watching handle, still on its first reference and subscription, shows data
\* while the nested handle a consumer read from an earlier payload, which held a
\* live subscription, is disconnected and unsubscribed.
C17_Witness ==
    /\ handles[0].subscribe
    /\ CallsOf(reqs, 0) = {1}
    /\ Populated(handles[0])
    /\ \E r \in 1..Len(refobjs) :
           /\ refobjs[r].owner = 0
           /\ refobjs[r].madeBy = "consumer"
           /\ r \notin RecordedBy(handles[0])
           /\ handles[r].disconnected
           /\ \E i \in CallsOf(reqs, r) : reqs[i].mode = "sub" /\ reqs[i].unsubs = 1

(***************************************************************************)
(* C18.  Delivering a snapshot or an error to a handle never makes the     *)
(* handle's effect run: the delivery leaves the calls the handle has made  *)
(* as they were, and a delivered snapshot stays in the handle, with the    *)
(* data or items it brought.                                               *)
(***************************************************************************)
C18_DeliveryIssuesNoCall ==
    [][\A i \in 1..Len(reqs) :
          /\ (\E result \in ResultsFor(reqs[i].h) : DeliverSnapshot(i, result))
                 => /\ CallsOf(reqs', reqs[i].h) = CallsOf(reqs, reqs[i].h)
                    /\ handles'[reqs[i].h].snapshot = Some(Outcome(i))
          /\ DeliverError(i)
                 => CallsOf(reqs', reqs[i].h) = CallsOf(reqs, reqs[i].h)]_vars

(***************************************************************************)
(* C19.  After disconnect() a handle's manager stays empty: a disconnected *)
(* handle has no record and no Query Item, and no nested handle built      *)
(* from a payload of a disconnected handle is connected.                   *)
(***************************************************************************)
C19_EmptyAfterDisconnect ==
    \A h \in DOMAIN handles :
        handles[h].disconnected =>
            /\ handles[h].records = <<>>
            /\ handles[h].items = <<>>
            /\ \A r \in 1..Len(refobjs) :
                   refobjs[r].owner = h /\ refobjs[r].subDoc => handles[r].disconnected

(***************************************************************************)
(* C20.  The walker visits exactly the occurrences of a reference that are *)
(* reached from the root through arrays and own keys of objects only       *)
(* (nothing under a reference, a callable value or an inherited key), each *)
(* once, in traversal order, with the path of the occurrence: "$", then    *)
(* "[i]" for element i of an array and the key for a value of an object.   *)
(***************************************************************************)
RECURSIVE Positions(_)
Positions(node) ==
    {<<>>} \cup UNION {{<<i>> \o pos : pos \in Positions(node.kids[i].v)} :
                       i \in 1..Len(node.kids)}

RECURSIVE NodeAt(_, _)
NodeAt(node, pos) ==
    IF pos = <<>> THEN node ELSE NodeAt(node.kids[Head(pos)].v, Tail(pos))

\* Every step of pos is an element of an array or an own key of an object.
RECURSIVE Open(_, _)
Open(node, pos) ==
    \/ pos = <<>>
    \/ /\ node.t \in {"arr", "obj"}
       /\ node.kids[Head(pos)].own
       /\ Open(node.kids[Head(pos)].v, Tail(pos))

RECURSIVE PathTo(_, _)
PathTo(node, pos) ==
    IF pos = <<>> THEN <<>>
    ELSE <<IF node.t = "arr" THEN IndexSegment[Head(pos)] ELSE node.kids[Head(pos)].name>>
         \o PathTo(node.kids[Head(pos)].v, Tail(pos))

Occurrences(node) ==
    {pos \in Positions(node) : NodeAt(node, pos).t = "ref" /\ Open(node, pos)}

\* pos comes before other in a traversal that takes children in order.
RECURSIVE Earlier(_, _)
Earlier(pos, other) ==
    /\ pos # <<>>
    /\ other # <<>>
    /\ \/ Head(pos) < Head(other)
       \/ Head(pos) = Head(other) /\ Earlier(Tail(pos), Tail(other))

VisitsTheOccurrences(node, visits) ==
    /\ Len(visits) = Cardinality(Occurrences(node))
    /\ \A pos \in Occurrences(node) :
           Cardinality({j \in 1..Len(visits) :
                            /\ visits[j].path = RootPath \o PathTo(node, pos)
                            /\ visits[j].obj = NodeAt(node, pos).obj}) = 1
    /\ \A pos \in Occurrences(node), other \in Occurrences(node) :
           Earlier(pos, other) =>
               \E j \in 1..Len(visits), k \in 1..Len(visits) :
                   /\ j < k
                   /\ visits[j].path = RootPath \o PathTo(node, pos)
                   /\ visits[k].path = RootPath \o PathTo(node, other)

C20_WalkerVisitsReferences ==
    walked.visits # Undefined => VisitsTheOccurrences(walked.input, walked.visits[1])

\* The walker has run on a value with two visited references, one of them in an
\* array, and with a reference it must not visit (under a reference, a callable
\* value or an inherited key).
C20_Witness ==
    /\ walked.visits # Undefined
    /\ Len(walked.visits[1]) = 2
    /\ \E j \in 1..2 : \E k \in 1..Len(walked.visits[1][j].path) :
           walked.visits[1][j].path[k] = "[0]"
    /\ \E pos \in Positions(walked.input) :
           NodeAt(walked.input, pos).t = "ref" /\ ~Open(walked.input, pos)

====
